---- MODULE Spec2Model ----
(***************************************************************************)
(* videojs-persist-controls: a video.js plugin that mirrors a player's     *)
(* mute state, volume, playback rate, caption track and audio track to     *)
(* localStorage and re-applies them when a player becomes ready.           *)
(*                                                                         *)
(* The model follows src/unnamed/part_000 lines 1-204 (the variant with    *)
(* all five preference kinds; src/src/plugin.js is the same code without   *)
(* the audioTrack kind).                                                   *)
(*                                                                         *)
(* Conventions.  A JavaScript value is a record [t, b, n, s] tagged by its *)
(* type.  A JavaScript object is a property list: a sequence of [k, v]     *)
(* records, kept in a fixed key order.  A string held by localStorage is a  *)
(* sequence of lexical tokens, so JSON.stringify is a printer and          *)
(* JSON.parse a parser.  Volume v stands for the float v / MaxVolume.      *)
(* The host player (video.js) and the browser's localStorage are the       *)
(* environment: their setters, getters and events are modelled at the      *)
(* places where the plugin calls them.                                     *)
(***************************************************************************)
EXTENDS Integers, Sequences, FiniteSets, TLC

\* ------------------------------------------------------------------ bounds
MaxVolume == 2
MaxRate == 2
MaxTracks == 2
MaxReloads == 1

Players == {1, 2}
Volumes == 0..MaxVolume
Rates == 1..MaxRate
Numbers == 0..(MaxVolume + MaxRate)
Langs == {"", "en", "fr"}
Indexes == 1..MaxTracks

\* ------------------------------------------------------- plugin constants
key == "persist-controls"
testKey == "persist-controls-test"
persistOptions == <<"volume", "muted", "playbackRate", "captions", "audioTrack">>
defaultOptions ==
  [muted |-> TRUE, volume |-> TRUE, playbackRate |-> TRUE, captions |-> TRUE,
   audioTrack |-> TRUE]
volumeChange == "volumechange"
rateChange == "ratechange"
textTrackChange == "texttrackchange"
audioChange == "change"
OptionNames == {persistOptions[i] : i \in 1..Len(persistOptions)}
\* A key of the stored record that is not a preference name.
foreignKey == "theme"
KeyNames == OptionNames \cup {foreignKey}

\* ------------------------------------------------------- JavaScript values
Undefined == [t |-> "undefined", b |-> FALSE, n |-> 0, s |-> ""]
Null == [t |-> "null", b |-> FALSE, n |-> 0, s |-> ""]
Bool(x) == [t |-> "boolean", b |-> x, n |-> 0, s |-> ""]
Num(x) == [t |-> "number", b |-> FALSE, n |-> x, s |-> ""]
Str(x) == [t |-> "string", b |-> FALSE, n |-> 0, s |-> x]

\* ToBoolean: undefined, null, false, 0 and "" are falsy.
Truthy(v) ==
  CASE v.t = "boolean" -> v.b
    [] v.t = "number" -> v.n # 0
    [] v.t = "string" -> v.s # ""
    [] OTHER -> FALSE

\* obj[k]: the value of property k, undefined when the object has none.
Get(obj, k) ==
  IF \E i \in 1..Len(obj) : obj[i].k = k
  THEN obj[CHOOSE i \in 1..Len(obj) : obj[i].k = k].v
  ELSE Undefined

Has(obj, k) == \E i \in 1..Len(obj) : obj[i].k = k

\* The place of a key among the members of a record.  The model keeps the
\* properties of an object in this order rather than in insertion order: no
\* code of the plugin depends on the order of the members.
KeyRank(k) ==
  CASE k = foreignKey -> 0
    [] OTHER -> CHOOSE i \in 1..Len(persistOptions) : persistOptions[i] = k

\* obj[k] = v: replaces the value in place, or adds a new property.
Put(obj, k, v) ==
  IF Has(obj, k)
  THEN [i \in 1..Len(obj) |-> IF obj[i].k = k THEN [k |-> k, v |-> v] ELSE obj[i]]
  ELSE LET before == SelectSeq(obj, LAMBDA m : KeyRank(m.k) < KeyRank(k))
           after == SelectSeq(obj, LAMBDA m : KeyRank(m.k) > KeyRank(k))
       IN before \o <<[k |-> k, v |-> v]>> \o after

\* -------------------------------------------------------------------- JSON
Quote(s) == "\"" \o s \o "\""

Literal(v) ==
  CASE v.t = "boolean" -> IF v.b THEN "true" ELSE "false"
    [] v.t = "number" -> ToString(v.n)
    [] v.t = "string" -> Quote(v.s)
    [] OTHER -> "null"

\* The members of an object, comma separated; a property whose value is
\* undefined is left out.
Members(obj) ==
  LET kept == SelectSeq(obj, LAMBDA m : m.v.t # "undefined")
  IN [j \in 1..(4 * Len(kept) - 1) |->
        LET m == kept[(j + 3) \div 4]
        IN CASE j % 4 = 1 -> Quote(m.k)
             [] j % 4 = 2 -> ":"
             [] j % 4 = 3 -> Literal(m.v)
             [] OTHER -> ","]

JSONstringify(obj) == <<"{">> \o Members(obj) \o <<"}">>

IsLiteral(tok) ==
  \/ tok \in {"true", "false", "null"}
  \/ \E n \in Numbers : ToString(n) = tok
  \/ \E s \in Langs : Quote(s) = tok

ParseLiteral(tok) ==
  IF tok = "true" THEN Bool(TRUE)
  ELSE IF tok = "false" THEN Bool(FALSE)
  ELSE IF tok = "null" THEN Null
  ELSE IF \E n \in Numbers : ToString(n) = tok
       THEN Num(CHOOSE n \in Numbers : ToString(n) = tok)
  ELSE Str(CHOOSE s \in Langs : Quote(s) = tok)

IsKey(tok) == \E k \in KeyNames : Quote(k) = tok
ParseKey(tok) == CHOOSE k \in KeyNames : Quote(k) = tok

\* The keys of a record in the order the model keeps them.
KeyOrder == <<foreignKey>> \o persistOptions

\* The members between the braces: key, colon, literal, separated by commas.
\* A key that occurs twice keeps its last value.
ParseMembers(toks) ==
  LET n == Len(toks)
      count == (n + 1) \div 4
      wellFormed ==
        /\ n % 4 = 3
        /\ \A i \in 0..(count - 1) :
             /\ IsKey(toks[4 * i + 1])
             /\ toks[4 * i + 2] = ":"
             /\ IsLiteral(toks[4 * i + 3])
             /\ i < count - 1 => toks[4 * i + 4] = ","
      At(k) == {i \in 0..(count - 1) : ParseKey(toks[4 * i + 1]) = k}
      Max(S) == CHOOSE i \in S : \A j \in S : j <= i
      present == SelectSeq(KeyOrder, LAMBDA k : At(k) # {})
  IN IF ~wellFormed THEN [ok |-> FALSE, obj |-> <<>>]
     ELSE [ok |-> TRUE,
           obj |-> [j \in 1..Len(present) |->
                      [k |-> present[j],
                       v |-> ParseLiteral(toks[4 * Max(At(present[j])) + 3])]]]

\* JSON.parse(text): [threw, isObject, obj, v].  A SyntaxError is threw = TRUE.
JSONparse(text) ==
  LET bad == [threw |-> TRUE, isObject |-> FALSE, obj |-> <<>>, v |-> Undefined]
  IN IF Len(text) = 1 /\ IsLiteral(text[1])
     THEN [threw |-> FALSE, isObject |-> FALSE, obj |-> <<>>,
           v |-> ParseLiteral(text[1])]
     ELSE IF Len(text) < 2 \/ text[1] # "{" \/ text[Len(text)] # "}" THEN bad
     ELSE IF Len(text) = 2
          THEN [threw |-> FALSE, isObject |-> TRUE, obj |-> <<>>, v |-> Undefined]
     ELSE LET r == ParseMembers(SubSeq(text, 2, Len(text) - 1))
          IN IF r.ok
             THEN [threw |-> FALSE, isObject |-> TRUE, obj |-> r.obj,
                   v |-> Undefined]
             ELSE bad

\* ------------------------------------------------------------ localStorage
\* getItem(k): the stored string, or null when the key is absent.
GetItem(st, k) ==
  IF k \in DOMAIN st THEN [isNull |-> FALSE, text |-> st[k]]
  ELSE [isNull |-> TRUE, text |-> <<>>]

SetItem(st, k, text) == (k :> text) @@ st
RemoveItem(st, k) == [j \in DOMAIN st \ {k} |-> st[j]]

\* JSON.parse applies ToString to its argument: null becomes the text null.
ArgToString(item) == IF item.isNull THEN <<"null">> ELSE item.text

\* A probe that does not remove its test key.
ProbeLeavesTestKey(st, available) ==
  IF available
  THEN [ok |-> TRUE, st |-> SetItem(st, testKey, <<".">>)]
  ELSE [ok |-> FALSE, st |-> st]

\* A probe that reports the storage usable whether or not its write threw.
ProbeAlwaysTrue(st, available) == [ok |-> TRUE, st |-> st]

\* The probe: writes and removes the test key; any failure yields false.
checkLocalStorageAvailability(st, available) ==
  IF available
  THEN [ok |-> TRUE, st |-> RemoveItem(SetItem(st, testKey, <<".">>), testKey)]
  ELSE [ok |-> FALSE, st |-> st]

\* JSON.parse(localStorage.getItem(key)) || {}: a falsy parse result (the
\* null of an absent key) is replaced by the empty object.  The stored
\* strings of the model hold no JSON primitive other than null.
Decode(item) ==
  LET r == JSONparse(ArgToString(item))
  IN [threw |-> r.threw, obj |-> IF r.isObject THEN r.obj ELSE <<>>]

\* ------------------------------------------------------------------ player
Modes == {"disabled", "showing"}

\* Array.prototype.find, given the outcome of the test on each element: the
\* index of the first element that passes, 0 when none does.
Find(passes) ==
  IF \E i \in 1..Len(passes) : passes[i]
  THEN CHOOSE i \in 1..Len(passes) : passes[i] /\ \A j \in 1..(i - 1) : ~passes[j]
  ELSE 0

\* The outcome of a test of the language on each track of a list.
LanguageIs(tracks, value) ==
  [i \in 1..Len(tracks) |-> value.t = "string" /\ tracks[i].language = value.s]
IsDefault(tracks) == [i \in 1..Len(tracks) |-> tracks[i].default]
IsEnabled(tracks) == [i \in 1..Len(tracks) |-> tracks[i].enabled]
IsShowing(tracks) == [i \in 1..Len(tracks) |-> tracks[i].mode = "showing"]

\* player.playbackRates ? player.playbackRates() : player.options_.playbackRates || []
PlayerRates(pl) == IF pl.ratesMethod THEN pl.rates ELSE pl.optionRates

\* A gate that lets every persisted rate through.
IncludesAnyRate(rates, value) == value.t = "number"

\* playerRates.includes(value)
Includes(rates, value) == value.t = "number" /\ value.n \in rates

\* player[option](value) for the options that are setters of the player.
CallSetter(pl, option, value) ==
  CASE option = "volume" -> [pl EXCEPT !.volume = value.n]
    [] option = "muted" -> [pl EXCEPT !.muted = Truthy(value)]
    [] option = "playbackRate" -> [pl EXCEPT !.playbackRate = value.n]

\* A captions branch in which the persisted language wins over the default.
ApplyCaptionsPreferenceFirst(pl, value) ==
  LET tracks == pl.textTracks
      defaultTrack == Find(IsDefault(tracks))
      trackToShow ==
        Find(LanguageIs(tracks, value))
  IN IF trackToShow # 0
     THEN [pl EXCEPT !.textTracks[trackToShow].mode = "showing"]
     ELSE IF defaultTrack # 0
          THEN [pl EXCEPT !.textTracks[defaultTrack].mode = "showing"]
          ELSE pl

\* A captions branch whose fallback disables every track.
ApplyCaptionsHideOthers(pl, value) ==
  LET tracks == pl.textTracks
      defaultTrack == Find(IsDefault(tracks))
      trackToShow ==
        Find(LanguageIs(tracks, value))
  IN IF defaultTrack # 0
     THEN [pl EXCEPT !.textTracks[defaultTrack].mode = "showing"]
     ELSE IF trackToShow # 0
          THEN [pl EXCEPT !.textTracks[trackToShow].mode = "showing"]
          ELSE [pl EXCEPT
                  !.textTracks = [i \in DOMAIN @ |-> [@[i] EXCEPT !.mode = "disabled"]]]

\* The captions branch: the default track wins, then the persisted language.
ApplyCaptions(pl, value) ==
  LET tracks == pl.textTracks
      defaultTrack == Find(IsDefault(tracks))
      trackToShow ==
        Find(LanguageIs(tracks, value))
  IN IF defaultTrack # 0
     THEN [pl EXCEPT !.textTracks[defaultTrack].mode = "showing"]
     ELSE IF trackToShow # 0
          THEN [pl EXCEPT !.textTracks[trackToShow].mode = "showing"]
          ELSE pl

\* The audioTrack branch: the enabled track is disabled when a track of the
\* persisted language exists, and that track is enabled.
ApplyAudioTrack(pl, value) ==
  LET tracks == pl.audioTracks
      defaultTrack == Find(IsEnabled(tracks))
      trackToShow ==
        Find(LanguageIs(tracks, value))
      off == IF defaultTrack # 0 /\ trackToShow # 0
             THEN [tracks EXCEPT ![defaultTrack].enabled = FALSE]
             ELSE tracks
      on == IF trackToShow # 0
            THEN [off EXCEPT ![trackToShow].enabled = TRUE]
            ELSE off
  IN [pl EXCEPT !.audioTracks = on]

\* An iteration that does not look at the option's flag.
ApplyOptionAnyway(pl, opts, obj, option) ==
  LET value == Get(obj, option)
  IN IF ~Truthy(value) THEN pl
     ELSE IF option = "playbackRate" /\ ~Includes(PlayerRates(pl), value)
          THEN pl
     ELSE IF option = "captions" THEN ApplyCaptions(pl, value)
     ELSE IF option = "audioTrack" THEN ApplyAudioTrack(pl, value)
     ELSE CallSetter(pl, option, value)

\* One iteration of persistOptions.forEach.
ApplyOption(pl, opts, obj, option) ==
  IF ~opts[option] THEN pl
  ELSE LET value == Get(obj, option)
       IN IF ~Truthy(value) THEN pl
          ELSE IF option = "playbackRate" /\ ~Includes(PlayerRates(pl), value)
               THEN pl
          ELSE IF option = "captions" THEN ApplyCaptions(pl, value)
          ELSE IF option = "audioTrack" THEN ApplyAudioTrack(pl, value)
          ELSE CallSetter(pl, option, value)

RECURSIVE ApplyFrom(_, _, _, _)
ApplyFrom(pl, opts, obj, i) ==
  IF i > Len(persistOptions) THEN pl
  ELSE ApplyFrom(ApplyOption(pl, opts, obj, persistOptions[i]), opts, obj, i + 1)

\* persistOptions.forEach(...)
ApplyPersisted(pl, opts, obj) == ApplyFrom(pl, opts, obj, 1)

\* The subscriptions onPlayerReady registers.
Subscriptions(opts) ==
  (IF opts.muted \/ opts.volume THEN {volumeChange} ELSE {})
    \cup (IF opts.playbackRate THEN {rateChange} ELSE {})
    \cup (IF opts.captions THEN {textTrackChange} ELSE {})
    \cup (IF opts.audioTrack THEN {audioChange} ELSE {})

\* videojs.obj.merge(PLUGIN_CONFIG.defaultOptions, options)
Merge(defaults, given) ==
  [k \in DOMAIN defaults |-> IF k \in DOMAIN given THEN given[k] ELSE defaults[k]]

\* ------------------------------------------------------------------- state
VARIABLES
  storage,           \* localStorage: a function from the keys present to strings
  storageAvailable,  \* whether localStorage accepts the probe's write
  storedBy,          \* history: the kinds whose values the last write of the record
                     \* stored for the first time
  player,            \* player[p]: the state of the video.js player p
  phase,             \* phase[p]: how far the plugin has got on player p
  options,           \* options[p]: the merged options of the activation
  data,              \* data[p]: the object onPlayerReady keeps in its closure
  observed,          \* history: per kind, the value a handler of p last read
  ops,               \* history: the calls p's plugin made on the record key
  pre,               \* history: the player and the item read, at startup
  last,              \* history: the last operation and whether its write succeeded
  reloads,           \* the page reloads so far
  focus,             \* the group of controls the page's user operates
  quota,             \* whether a write of the record can exceed the quota
  pending            \* history: per player, the kinds assigned by a handler whose
                     \* write threw, and not written since

vars ==
  <<storage, storageAvailable, storedBy, player, phase, options, data, observed,
    ops, pre, last, reloads, focus, quota, pending>>

Phases ==
  {"Absent", "Unloaded", "Created", "Pending", "Disabled", "Failed", "Listening"}
\* The phases in which the user can operate the controls of the player.
Running == {"Disabled", "Failed", "Listening"}

\* A player as the page creates it.
BasePlayer ==
  [muted |-> FALSE, volume |-> MaxVolume, playbackRate |-> 1,
   defaultMuted |-> FALSE, defaultPlaybackRate |-> 1,
   ratesMethod |-> TRUE, rates |-> Rates, optionRates |-> {},
   textTracks |-> <<>>, audioTracks |-> <<>>,
   hasClass |-> FALSE, handlers |-> {}]

TextTrack == [language : Langs, default : BOOLEAN, mode : Modes]
AudioTrack == [language : Langs, enabled : BOOLEAN]
TrackLists(T) == UNION {[1..n -> T] : n \in 1..MaxTracks}
\* An AudioTrackList keeps at most one track enabled.
AudioTrackLists ==
  {l \in TrackLists(AudioTrack) : Cardinality({i \in DOMAIN l : l[i].enabled}) <= 1}

\* The players a page can create.  Each varies one group of controls of the
\* base player.
SoundPlayers ==
  {[BasePlayer EXCEPT !.muted = m, !.volume = v] : m \in BOOLEAN, v \in Volumes}
RatePlayers ==
  {[BasePlayer EXCEPT !.rates = 1..n, !.playbackRate = r] :
     n \in 0..MaxRate, r \in Rates}
    \cup {[BasePlayer EXCEPT !.ratesMethod = FALSE, !.rates = {}, !.optionRates = r] :
            r \in {{}, Rates}}
CaptionPlayers == {[BasePlayer EXCEPT !.textTracks = l] : l \in TrackLists(TextTrack)}
AudioPlayers == {[BasePlayer EXCEPT !.audioTracks = l] : l \in AudioTrackLists}

\* A run follows one group of controls: the kinds of preference the caller
\* configures and the user operates, and the players that vary in them.
Focuses == {"sound", "rate", "captions", "audio"}
Kinds(f) ==
  CASE f = "sound" -> {"volume", "muted"}
    [] f = "rate" -> {"playbackRate", "volume"}
    [] f = "captions" -> {"captions"}
    [] f = "audio" -> {"audioTrack"}
    [] f = "pair" -> {"playbackRate", "muted"}
NewPlayers(f) ==
  CASE f = "sound" -> SoundPlayers
    [] f = "rate" -> RatePlayers
    [] f = "captions" -> CaptionPlayers
    [] f = "audio" -> AudioPlayers
    [] f = "pair" -> {BasePlayer}
\* The kinds an event of the player reports.
KindsOf(event) ==
  CASE event = volumeChange -> {"volume", "muted"}
    [] event = rateChange -> {"playbackRate"}
    [] event = textTrackChange -> {"captions"}
    [] event = audioChange -> {"audioTrack"}
\* An event fires only for a control the user operates.
Fires(event) == KindsOf(event) \cap Kinds(focus) # {}

\* The strings the record key can hold when the first page loads.
NotJson == <<"not", "json">>
StaleRecord ==
  <<[k |-> foreignKey, v |-> Str("en")], [k |-> "volume", v |-> Num(0)],
    [k |-> "muted", v |-> Bool(TRUE)], [k |-> "playbackRate", v |-> Num(MaxRate)],
    [k |-> "captions", v |-> Str("fr")], [k |-> "audioTrack", v |-> Str("fr")]>>
InitialStorages ==
  {<<>>, key :> NotJson, key :> JSONstringify(<<>>), key :> JSONstringify(StaleRecord)}

NoObservation == [k \in OptionNames |-> Undefined]
NoPre == [valid |-> FALSE, pl |-> BasePlayer, item |-> GetItem(<<>>, key)]
Op(name, p, ok) == [op |-> name, p |-> p, ok |-> ok]

\* The page is about to load with the players of `present`.
InitPage(present) ==
  /\ player = [q \in Players |-> BasePlayer]
  /\ phase = [q \in Players |-> IF q \in present THEN "Unloaded" ELSE "Absent"]
  /\ options = [q \in Players |-> defaultOptions]
  /\ data = [q \in Players |-> <<>>]
  /\ observed = [q \in Players |-> NoObservation]
  /\ ops = [q \in Players |-> {}]
  /\ pre = [q \in Players |-> NoPre]
  /\ last = Op("none", 1, TRUE)
  /\ reloads = 0
  /\ pending = [q \in Players |-> {}]

\* One page with one player; every write of the record succeeds.
Init ==
  /\ storage \in InitialStorages
  /\ storageAvailable \in BOOLEAN
  /\ storedBy = {}
  /\ focus \in Focuses
  /\ quota = FALSE
  /\ InitPage({1})

\* ----------------------------------------------------------------- plugin
\* The options a caller can pass: any of the five names, each true or false.
GivenOptions(kinds) == UNION {[S -> BOOLEAN] : S \in SUBSET kinds}

\* persistControls(options): the probe, then the wait for the player's ready.
persistControls(p) ==
  /\ phase[p] = "Created"
  /\ \E given \in GivenOptions(Kinds(focus)) :
       LET probe == checkLocalStorageAvailability(storage, storageAvailable)
       IN /\ storage' = probe.st
          /\ phase' = [phase EXCEPT ![p] = IF probe.ok THEN "Pending" ELSE "Disabled"]
          /\ options' =
               [options EXCEPT
                  ![p] = IF probe.ok THEN Merge(defaultOptions, given) ELSE @]
          /\ last' = Op("persistControls", p, probe.ok)
  /\ UNCHANGED <<storageAvailable, storedBy, player, data, observed, ops, pre,
                 reloads, focus, quota, pending>>

\* onPlayerReady(player, options, localStorage): reads the record, applies the
\* enabled options that have a value, registers the handlers.  A SyntaxError
\* of JSON.parse leaves the function after addClass.
onPlayerReady(p) ==
  /\ phase[p] = "Pending"
  /\ LET item == GetItem(storage, key)
         decoded == Decode(item)
         classed == [player[p] EXCEPT !.hasClass = TRUE]
         applied == ApplyPersisted(classed, options[p], decoded.obj)
     IN /\ pre' = [pre EXCEPT ![p] = [valid |-> TRUE, pl |-> player[p], item |-> item]]
        /\ ops' = [ops EXCEPT ![p] = @ \cup {"getItem"}]
        /\ last' = Op("onPlayerReady", p, ~decoded.threw)
        /\ IF decoded.threw
           THEN /\ phase' = [phase EXCEPT ![p] = "Failed"]
                /\ player' = [player EXCEPT ![p] = classed]
                /\ data' = data
           ELSE /\ phase' = [phase EXCEPT ![p] = "Listening"]
                /\ player' =
                     [player EXCEPT
                        ![p] = [applied EXCEPT !.handlers = Subscriptions(options[p])]]
                /\ data' = [data EXCEPT ![p] = decoded.obj]
  /\ UNCHANGED <<storage, storageAvailable, storedBy, options, observed, reloads,
                 focus, quota, pending>>

\* A write that stores only the members the handler of event has assigned.
WriteAssignedOnly(p, event, obj, ok) ==
  /\ storage' =
       IF ok
       THEN SetItem(storage, key,
                    JSONstringify(SelectSeq(obj, LAMBDA m : m.k \in KindsOf(event))))
       ELSE storage
  /\ storedBy' =
       IF ok THEN {k \in KindsOf(event) : options[p][k]} \cup pending[p] ELSE storedBy
  /\ pending' =
       [pending EXCEPT
          ![p] = IF ok THEN {} ELSE @ \cup {k \in KindsOf(event) : options[p][k]}]
  /\ ops' = [ops EXCEPT ![p] = @ \cup {"setItem"}]
  /\ last' = Op(event, p, ok)
  /\ pre' = [pre EXCEPT ![p] = NoPre]

\* A write that stores the members of the enabled options and no other.
WriteOptionsOnly(p, event, obj, ok) ==
  /\ storage' =
       IF ok
       THEN SetItem(storage, key,
                    JSONstringify(SelectSeq(obj, LAMBDA m : /\ m.k \in OptionNames
                                                           /\ options[p][m.k])))
       ELSE storage
  /\ storedBy' =
       IF ok THEN {k \in KindsOf(event) : options[p][k]} \cup pending[p] ELSE storedBy
  /\ pending' =
       [pending EXCEPT
          ![p] = IF ok THEN {} ELSE @ \cup {k \in KindsOf(event) : options[p][k]}]
  /\ ops' = [ops EXCEPT ![p] = @ \cup {"setItem"}]
  /\ last' = Op(event, p, ok)
  /\ pre' = [pre EXCEPT ![p] = NoPre]

\* A write that reads the stored record back and replaces in it only the
\* members the handler of event has assigned.
WriteOverStored(p, event, obj, ok) ==
  LET base == Decode(GetItem(storage, key)).obj
      ks == {k \in KindsOf(event) : options[p][k]}
      present ==
        SelectSeq(KeyOrder, LAMBDA k : IF k \in ks THEN Has(obj, k) ELSE Has(base, k))
      merged ==
        [j \in 1..Len(present) |->
           [k |-> present[j],
            v |-> IF present[j] \in ks THEN Get(obj, present[j])
                  ELSE Get(base, present[j])]]
  IN /\ storage' = IF ok THEN SetItem(storage, key, JSONstringify(merged)) ELSE storage
     /\ storedBy' = IF ok THEN ks \cup pending[p] ELSE storedBy
     /\ pending' = [pending EXCEPT ![p] = IF ok THEN {} ELSE @ \cup ks]
     /\ ops' = [ops EXCEPT ![p] = @ \cup {"setItem"}]
     /\ last' = Op(event, p, ok)
     /\ pre' = [pre EXCEPT ![p] = NoPre]

\* localStorage.setItem(key, JSON.stringify(obj)) by p's handler of event; a
\* write that throws (the quota is exceeded) ends the handler and leaves the
\* storage as it was.
Write(p, event, obj, ok) ==
  /\ storage' = IF ok THEN SetItem(storage, key, JSONstringify(obj)) ELSE storage
  /\ storedBy' =
       IF ok THEN {k \in KindsOf(event) : options[p][k]} \cup pending[p] ELSE storedBy
  /\ pending' =
       [pending EXCEPT
          ![p] = IF ok THEN {} ELSE @ \cup {k \in KindsOf(event) : options[p][k]}]
  /\ ops' = [ops EXCEPT ![p] = @ \cup {"setItem"}]
  /\ last' = Op(event, p, ok)
  /\ pre' = [pre EXCEPT ![p] = NoPre]

\* The outcomes of a write: it succeeds, or throws when the quota can be
\* exceeded.
Outcomes == IF quota THEN BOOLEAN ELSE {TRUE}

\* A handler that records the volume whether or not the option is enabled.
VolumeRecordAlways(opts, obj, pl) ==
  LET d1 == IF opts.muted THEN Put(obj, "muted", Bool(pl.muted)) ELSE obj
  IN Put(d1, "volume", Num(pl.volume))

\* The record after the volumechange handler's assignments: muted and
\* volume, each when its option is enabled.
VolumeRecord(opts, obj, pl) ==
  LET d1 == IF opts.muted THEN Put(obj, "muted", Bool(pl.muted)) ELSE obj
  IN IF opts.volume THEN Put(d1, "volume", Num(pl.volume)) ELSE d1

\* The handler of volumechange.
onVolumeChange(p) ==
  /\ phase[p] = "Listening"
  /\ volumeChange \in player[p].handlers
  /\ Fires(volumeChange)
  /\ LET opts == options[p]
         isMuted == player[p].muted
         d2 == VolumeRecord(opts, data[p], player[p])
     IN /\ player' =
             [player EXCEPT ![p].defaultMuted = IF opts.muted THEN isMuted ELSE @]
        /\ data' = [data EXCEPT ![p] = d2]
        /\ observed' =
             [observed EXCEPT
                ![p].muted = IF opts.muted THEN Bool(isMuted) ELSE @,
                ![p].volume = IF opts.volume THEN Num(player[p].volume) ELSE @]
        /\ \E ok \in Outcomes : Write(p, volumeChange, d2, ok)
  /\ UNCHANGED <<storageAvailable, phase, options, reloads, focus, quota>>

\* A handler of ratechange that leaves the player's default rate alone.
onRateChangeKeepDefault(p) ==
  /\ phase[p] = "Listening"
  /\ rateChange \in player[p].handlers
  /\ Fires(rateChange)
  /\ LET rate == player[p].playbackRate
         d1 == Put(data[p], "playbackRate", Num(rate))
     IN /\ data' = [data EXCEPT ![p] = d1]
        /\ observed' = [observed EXCEPT ![p].playbackRate = Num(rate)]
        /\ \E ok \in Outcomes : Write(p, rateChange, d1, ok)
  /\ UNCHANGED <<storageAvailable, player, phase, options, reloads, focus, quota>>

\* The handler of ratechange.
onRateChange(p) ==
  /\ phase[p] = "Listening"
  /\ rateChange \in player[p].handlers
  /\ Fires(rateChange)
  /\ LET rate == player[p].playbackRate
         d1 == Put(data[p], "playbackRate", Num(rate))
     IN /\ player' = [player EXCEPT ![p].defaultPlaybackRate = rate]
        /\ data' = [data EXCEPT ![p] = d1]
        /\ observed' = [observed EXCEPT ![p].playbackRate = Num(rate)]
        /\ \E ok \in Outcomes : Write(p, rateChange, d1, ok)
  /\ UNCHANGED <<storageAvailable, phase, options, reloads, focus, quota>>

\* A handler that records nothing when no track is showing.
CaptionValueOrNothing(tracks) ==
  LET selectedTrack == Find(IsShowing(tracks))
  IN IF selectedTrack # 0 THEN Str(tracks[selectedTrack].language) ELSE Undefined

\* The value the texttrackchange handler records: the language of the first
\* track that is showing, the empty string when none is.
CaptionValue(tracks) ==
  LET selectedTrack == Find(IsShowing(tracks))
  IN IF selectedTrack # 0 THEN Str(tracks[selectedTrack].language) ELSE Str("")

\* The handler of texttrackchange.
onTextTrackChange(p) ==
  /\ phase[p] = "Listening"
  /\ textTrackChange \in player[p].handlers
  /\ Fires(textTrackChange)
  /\ LET d1 == Put(data[p], "captions", CaptionValue(player[p].textTracks))
     IN /\ data' = [data EXCEPT ![p] = d1]
        /\ observed' = [observed EXCEPT ![p].captions = CaptionValue(player[p].textTracks)]
        /\ \E ok \in Outcomes : Write(p, textTrackChange, d1, ok)
  /\ UNCHANGED <<storageAvailable, player, phase, options, reloads, focus, quota>>

\* A handler that records the empty string when no track is enabled, as the
\* handler of texttrackchange does.
onAudioTrackChangeOrEmpty(p) ==
  /\ phase[p] = "Listening"
  /\ audioChange \in player[p].handlers
  /\ Fires(audioChange)
  /\ LET tracks == player[p].audioTracks
         selectedTrack == Find(IsEnabled(tracks))
         language == IF selectedTrack = 0 THEN "" ELSE tracks[selectedTrack].language
         d1 == Put(data[p], "audioTrack", Str(language))
     IN /\ data' = [data EXCEPT ![p] = d1]
        /\ observed' = [observed EXCEPT ![p].audioTrack = Str(language)]
        /\ \E ok \in Outcomes : Write(p, audioChange, d1, ok)
  /\ UNCHANGED <<storageAvailable, player, phase, options, reloads, focus, quota>>

\* The handler of the audio track list's change.  With no track enabled,
\* selectedTrack.language throws a TypeError before anything is assigned.
onAudioTrackChange(p) ==
  /\ phase[p] = "Listening"
  /\ audioChange \in player[p].handlers
  /\ Fires(audioChange)
  /\ LET tracks == player[p].audioTracks
         selectedTrack == Find(IsEnabled(tracks))
     IN IF selectedTrack = 0
        THEN /\ last' = Op("TypeError", p, FALSE)
             /\ pre' = [pre EXCEPT ![p] = NoPre]
             /\ UNCHANGED <<storage, storedBy, ops, data, observed, pending>>
        ELSE LET d1 == Put(data[p], "audioTrack", Str(tracks[selectedTrack].language))
             IN /\ data' = [data EXCEPT ![p] = d1]
                /\ observed' =
                     [observed EXCEPT
                        ![p].audioTrack = Str(tracks[selectedTrack].language)]
                /\ \E ok \in Outcomes : Write(p, audioChange, d1, ok)
  /\ UNCHANGED <<storageAvailable, player, phase, options, reloads, focus, quota>>

\* ------------------------------------------------------------ environment
\* The user (or the page) operates a control of a running player.
Operate(p, kind, pl) ==
  /\ phase[p] \in Running
  /\ kind \in Kinds(focus)
  /\ pl # player[p]
  /\ player' = [player EXCEPT ![p] = pl]
  /\ pre' = [pre EXCEPT ![p] = NoPre]
  /\ last' = Op("user", p, TRUE)
  /\ UNCHANGED <<storage, storageAvailable, storedBy, phase, options, data,
                 observed, ops, reloads, focus, quota, pending>>

UserVolume(p) == \E v \in Volumes : Operate(p, "volume", [player[p] EXCEPT !.volume = v])
UserMute(p) == Operate(p, "muted", [player[p] EXCEPT !.muted = ~@])
UserRate(p) == \E r \in Rates : Operate(p, "playbackRate", [player[p] EXCEPT !.playbackRate = r])

\* Selecting caption track i shows it and disables the others; 0 turns the
\* captions off.
UserCaption(p) ==
  \E i \in 0..Len(player[p].textTracks) :
    Operate(p, "captions", [player[p] EXCEPT
                  !.textTracks =
                    [j \in DOMAIN @ |->
                       [@[j] EXCEPT !.mode = IF j = i THEN "showing" ELSE "disabled"]]])

\* Enabling audio track i disables the others; 0 disables every track.
UserAudio(p) ==
  \E i \in 0..Len(player[p].audioTracks) :
    Operate(p, "audioTrack", [player[p] EXCEPT
                  !.audioTracks = [j \in DOMAIN @ |-> [@[j] EXCEPT !.enabled = (j = i)]]])

\* The page creates player p.
Load(p) ==
  /\ phase[p] = "Unloaded"
  /\ \E pl \in NewPlayers(focus) : player' = [player EXCEPT ![p] = pl]
  /\ phase' = [phase EXCEPT ![p] = "Created"]
  /\ last' = Op("load", p, TRUE)
  /\ UNCHANGED <<storage, storageAvailable, storedBy, options, data, observed,
                 ops, pre, reloads, focus, quota, pending>>

\* The page is left to be loaded again: the player and the plugin's closure
\* are gone, and localStorage is what it was.
Unload(p) ==
  /\ phase[p] \in Running
  /\ reloads < MaxReloads
  /\ reloads' = reloads + 1
  /\ player' = [player EXCEPT ![p] = BasePlayer]
  /\ phase' = [phase EXCEPT ![p] = "Unloaded"]
  /\ options' = [options EXCEPT ![p] = defaultOptions]
  /\ data' = [data EXCEPT ![p] = <<>>]
  /\ observed' = [observed EXCEPT ![p] = NoObservation]
  /\ ops' = [ops EXCEPT ![p] = {}]
  /\ pre' = [pre EXCEPT ![p] = NoPre]
  /\ last' = Op("unload", p, TRUE)
  /\ pending' = [pending EXCEPT ![p] = {}]
  /\ UNCHANGED <<storage, storageAvailable, storedBy, focus, quota>>

Next ==
  \E p \in Players :
    \/ persistControls(p)
    \/ onPlayerReady(p)
    \/ onVolumeChange(p)
    \/ onRateChange(p)
    \/ onTextTrackChange(p)
    \/ onAudioTrackChange(p)
    \/ UserVolume(p)
    \/ UserMute(p)
    \/ UserRate(p)
    \/ UserCaption(p)
    \/ UserAudio(p)
    \/ Load(p)
    \/ Unload(p)

Spec == Init /\ [][Next]_vars

\* The player delivers its notifications: a handler that stays subscribed to
\* an event that fires is run.
Delivery ==
  \A p \in Players :
    /\ WF_vars(onVolumeChange(p))
    /\ WF_vars(onRateChange(p))
    /\ WF_vars(onTextTrackChange(p))
    /\ WF_vars(onAudioTrackChange(p))

SpecLive == Spec /\ Delivery

\* One page with two players on the one localStorage of the page: the plugin
\* has been activated on each with no options, and waits for its ready.
InitTwo ==
  /\ storage \in {<<>>, key :> JSONstringify(StaleRecord)}
  /\ storageAvailable = TRUE
  /\ storedBy = {}
  /\ focus = "pair"
  /\ quota = FALSE
  /\ player = [q \in Players |-> BasePlayer]
  /\ phase = [q \in Players |-> "Pending"]
  /\ options = [q \in Players |-> Merge(defaultOptions, <<>>)]
  /\ data = [q \in Players |-> <<>>]
  /\ observed = [q \in Players |-> NoObservation]
  /\ ops = [q \in Players |-> {}]
  /\ pre = [q \in Players |-> NoPre]
  /\ last = Op("persistControls", 1, TRUE)
  /\ reloads = 0
  /\ pending = [q \in Players |-> {}]

\* The page is not left: the two players live side by side.
NextTwo ==
  \E p \in Players :
    \/ onPlayerReady(p)
    \/ onVolumeChange(p)
    \/ onRateChange(p)
    \/ UserMute(p)
    \/ UserRate(p)

SpecTwo == InitTwo /\ [][NextTwo]_vars

\* One page with one player on a localStorage that passes the probe and whose
\* quota a write of the record can exceed.
InitQuota ==
  /\ storage \in InitialStorages
  /\ storageAvailable = TRUE
  /\ storedBy = {}
  /\ focus \in Focuses
  /\ quota = TRUE
  /\ InitPage({1})

\* One session of the page.
NextQuota ==
  \E p \in Players :
    \/ Load(p)
    \/ persistControls(p)
    \/ onPlayerReady(p)
    \/ onVolumeChange(p)
    \/ onRateChange(p)
    \/ onTextTrackChange(p)
    \/ onAudioTrackChange(p)
    \/ UserVolume(p)
    \/ UserMute(p)
    \/ UserRate(p)
    \/ UserCaption(p)
    \/ UserAudio(p)

SpecQuota == InitQuota /\ [][NextQuota]_vars

\* ------------------------------------------------------------------ claims
Events == {volumeChange, rateChange, textTrackChange, audioChange}

\* The record the storage holds, as a startup would decode it.
StoredIn(st) == Decode(GetItem(st, key)).obj
Stored == StoredIn(storage)
\* The record p's startup decoded.
Persisted(p) == Decode(pre[p].item).obj
\* p's startup has just run to its end: nothing has happened since.
Started(p) ==
  /\ last = Op("onPlayerReady", p, TRUE)
  /\ pre[p].valid
  /\ phase[p] = "Listening"
\* p's handler of event has just written the record.
Wrote(p, event) == last = Op(event, p, TRUE)

\* C1: after a volumechange handler has persisted muted m and volume v, a
\* later startup with muted and volume enabled ends with the player's muted
\* equal to m and its volume equal to v, whatever the new player started with.
C1_RoundTrip ==
  \A p \in Players :
    (/\ Started(p)
     /\ options[p].muted /\ options[p].volume
     /\ storedBy = {"muted", "volume"})
    => /\ Bool(player[p].muted) = Get(Persisted(p), "muted")
       /\ Num(player[p].volume) = Get(Persisted(p), "volume")

\* C2: for p, after a successful write the stored record holds, for each
\* enabled kind a handler of p has read, the value it last read; after a
\* volumechange write with volume enabled it holds the player's volume.
C2_WriteReflectsObserved ==
  \A p \in Players : \A e \in Events :
    Wrote(p, e)
    => /\ ~Decode(GetItem(storage, key)).threw
       /\ \A k \in OptionNames :
            (options[p][k] /\ observed[p][k] # Undefined)
            => Has(Stored, k) /\ Get(Stored, k) = observed[p][k]
       /\ (e = volumeChange /\ options[p].volume)
          => Get(Stored, "volume") = Num(player[p].volume)

\* C2 witness: a volumechange write that finds the rate written by an
\* earlier ratechange of the session still in the record.
C2_Witness ==
  /\ Wrote(1, volumeChange)
  /\ options[1].volume
  /\ observed[1].playbackRate # Undefined
  /\ Get(Stored, "playbackRate") = observed[1].playbackRate
  /\ Get(Stored, "volume") = Num(player[1].volume)

\* C3 as stated: with volume disabled, a volumechange notification leaves
\* the stored record unchanged, whatever the other options are.
C3_RecordUnchanged ==
  [][\A p \in Players :
       (last' = Op(volumeChange, p, TRUE) /\ ~options[p].volume)
       => \A old \in {Stored}, new \in {StoredIn(storage')} : new = old]_vars

\* C3 amended: with volume disabled, a volumechange notification leaves the
\* volume member of the stored record as it was; with muted disabled too, no
\* handler is subscribed to the notification.
C3_VolumeKeyUnchanged ==
  [][\A p \in Players :
       ~options'[p].volume
       => /\ (last'.op = volumeChange /\ last'.p = p)
             => \A old \in {Stored}, new \in {StoredIn(storage')} :
                  /\ Has(new, "volume") = Has(old, "volume")
                  /\ Get(new, "volume") = Get(old, "volume")
          /\ ~options'[p].muted => volumeChange \notin player'[p].handlers]_vars

\* C3 witness: the handler, with volume disabled and muted enabled, has
\* rewritten a record whose volume is not the player's.
C3_Witness ==
  /\ Wrote(1, volumeChange)
  /\ ~options[1].volume
  /\ Has(Stored, "volume")
  /\ Get(Stored, "volume") # Num(player[1].volume)
  /\ Get(Stored, "muted") = Bool(player[1].muted)

\* C4: a startup that reads an absent or a malformed string takes it for the
\* empty record, applies nothing and ends Listening with its subscriptions.
C4_TolerantStartup ==
  \A p \in Players :
    (/\ last.op = "onPlayerReady" /\ last.p = p
     /\ pre[p].valid
     /\ (pre[p].item.isNull \/ pre[p].item.text = NotJson))
    => /\ phase[p] = "Listening"
       /\ data[p] = <<>>
       /\ player[p] =
            [pre[p].pl EXCEPT !.hasClass = TRUE, !.handlers = Subscriptions(options[p])]

\* C5: while localStorage refuses the probe, the plugin never gets past a
\* Disabled activation: it makes no call on the record key, registers no
\* handler, changes nothing of the player and nothing of the storage.
C5_DisabledNoOp ==
  \A p \in Players :
    ~storageAvailable
    => /\ phase[p] \in {"Absent", "Unloaded", "Created", "Disabled"}
       /\ (last.op = "persistControls" /\ last.p = p) => phase[p] = "Disabled"
       /\ ops[p] = {}
       /\ data[p] = <<>>
       /\ player[p].handlers = {}
       /\ ~player[p].hasClass
       /\ player[p].defaultMuted = BasePlayer.defaultMuted
       /\ player[p].defaultPlaybackRate = BasePlayer.defaultPlaybackRate
       /\ storedBy = {}
       /\ testKey \notin DOMAIN storage

\* C5 witness: the user operates a player whose plugin is Disabled.
C5_Witness ==
  /\ phase[1] = "Disabled"
  /\ last = Op("user", 1, TRUE)
  /\ key \in DOMAIN storage

\* C6: a startup with playbackRate enabled sets the player's rate to the
\* persisted rate when the player's rates include it, and leaves the rate as
\* it was when they do not.
C6_RateGating ==
  \A p \in Players :
    (/\ Started(p)
     /\ options[p].playbackRate
     /\ Get(Persisted(p), "playbackRate").t = "number")
    => LET rate == Get(Persisted(p), "playbackRate").n
       IN IF rate \in PlayerRates(pre[p].pl)
          THEN player[p].playbackRate = rate
          ELSE player[p].playbackRate = pre[p].pl.playbackRate

\* C6 witness: a persisted rate the player does not support was skipped.
C6_Witness ==
  /\ Started(1)
  /\ options[1].playbackRate
  /\ Get(Persisted(1), "playbackRate").t = "number"
  /\ Get(Persisted(1), "playbackRate").n \notin PlayerRates(pre[1].pl)
  /\ Get(Persisted(1), "playbackRate").n # player[1].playbackRate

\* The first default track and the first track of the persisted language
\* among the text tracks p had before its startup, 0 when there is none.
DefaultBefore(p) == Find(IsDefault(pre[p].pl.textTracks))
CaptionMatchBefore(p) ==
  Find(LanguageIs(pre[p].pl.textTracks, Get(Persisted(p), "captions")))

\* C7 as stated: after a startup with captions enabled, the default track is
\* showing if there is one; if there is none, the track of the persisted
\* language is showing if there is one.
C7_CaptionPrecedence ==
  \A p \in Players :
    (Started(p) /\ options[p].captions)
    => /\ DefaultBefore(p) # 0
          => player[p].textTracks[DefaultBefore(p)].mode = "showing"
       /\ (DefaultBefore(p) = 0 /\ CaptionMatchBefore(p) # 0)
          => player[p].textTracks[CaptionMatchBefore(p)].mode = "showing"

\* C7 amended: the same when the record holds a non-empty caption language;
\* when it holds none, or the empty string, startup changes no track's mode.
C7_CaptionPrecedencePersisted ==
  \A p \in Players :
    (Started(p) /\ options[p].captions)
    => IF Truthy(Get(Persisted(p), "captions"))
       THEN /\ DefaultBefore(p) # 0
               => player[p].textTracks[DefaultBefore(p)].mode = "showing"
            /\ (DefaultBefore(p) = 0 /\ CaptionMatchBefore(p) # 0)
               => player[p].textTracks[CaptionMatchBefore(p)].mode = "showing"
       ELSE player[p].textTracks = pre[p].pl.textTracks

\* C7 witness: a default track that was disabled is showing, and the track
\* of the persisted language is not.
C7_Witness ==
  /\ Started(1) /\ options[1].captions
  /\ Truthy(Get(Persisted(1), "captions"))
  /\ DefaultBefore(1) # 0 /\ CaptionMatchBefore(1) # 0
  /\ DefaultBefore(1) # CaptionMatchBefore(1)
  /\ pre[1].pl.textTracks[DefaultBefore(1)].mode = "disabled"
  /\ player[1].textTracks[DefaultBefore(1)].mode = "showing"
  /\ player[1].textTracks[CaptionMatchBefore(1)].mode = "disabled"

\* C8 as stated: after a startup with captions enabled, no default track and
\* no track of the persisted language, no track is showing.
C8_CaptionFallbackNone ==
  \A p \in Players :
    (/\ Started(p) /\ options[p].captions
     /\ DefaultBefore(p) = 0 /\ CaptionMatchBefore(p) = 0)
    => \A i \in DOMAIN player[p].textTracks : player[p].textTracks[i].mode # "showing"

\* C8 amended: in that case startup leaves the mode of every track as it was.
C8_CaptionFallbackUntouched ==
  \A p \in Players :
    (/\ Started(p) /\ options[p].captions
     /\ DefaultBefore(p) = 0 /\ CaptionMatchBefore(p) = 0)
    => player[p].textTracks = pre[p].pl.textTracks

\* C8 witness: a persisted language that no track has, no default track, and
\* a track that was showing before the startup.
C8_Witness ==
  /\ Started(1) /\ options[1].captions
  /\ Truthy(Get(Persisted(1), "captions"))
  /\ DefaultBefore(1) = 0 /\ CaptionMatchBefore(1) = 0
  /\ \E i \in DOMAIN pre[1].pl.textTracks : pre[1].pl.textTracks[i].mode = "showing"
  /\ player[1].textTracks = pre[1].pl.textTracks

\* The audio tracks enabled in a list.
EnabledIn(tracks) == {i \in DOMAIN tracks : tracks[i].enabled}
\* The first track of the persisted language among the audio tracks p had
\* before its startup, 0 when there is none.
AudioMatchBefore(p) ==
  Find(LanguageIs(pre[p].pl.audioTracks, Get(Persisted(p), "audioTrack")))

\* C9: after a startup with audioTrack enabled and one track enabled before
\* it: if a track has the persisted language, that track is enabled, the
\* track enabled before (if another) is disabled and one track is enabled;
\* if none has it, the enabled tracks are those enabled before.
C9_AudioResolution ==
  \A p \in Players :
    (/\ Started(p) /\ options[p].audioTrack
     /\ Cardinality(EnabledIn(pre[p].pl.audioTracks)) = 1)
    => IF AudioMatchBefore(p) # 0
       THEN /\ EnabledIn(player[p].audioTracks) = {AudioMatchBefore(p)}
       ELSE EnabledIn(player[p].audioTracks) = EnabledIn(pre[p].pl.audioTracks)

\* C10: a successful write of the texttrackchange handler stores the captions
\* member: the language of the first showing track, or the empty string when
\* no track is showing, which a record without the member does not equal.
C10_EmptyCaptionPersisted ==
  \A p \in Players :
    Wrote(p, textTrackChange)
    => LET tracks == player[p].textTracks
           showing == Find(IsShowing(tracks))
       IN /\ Has(Stored, "captions")
          /\ Get(Stored, "captions") =
               Str(IF showing = 0 THEN "" ELSE tracks[showing].language)
          /\ storage[key] #
               JSONstringify(SelectSeq(Stored, LAMBDA m : m.k # "captions"))

\* C10 witness: the handler has written the empty string with no track
\* showing among the tracks of the player.
C10_Witness ==
  /\ Wrote(1, textTrackChange)
  /\ player[1].textTracks # <<>>
  /\ \A i \in DOMAIN player[1].textTracks : player[1].textTracks[i].mode # "showing"
  /\ Get(Stored, "captions") = Str("")

\* The members of the record p's handler of event assigns.
Updated(p, event) == {k \in KindsOf(event) : options[p][k]}

C12_LastWriteWins ==
  [][/\ \A p \in Players :
          (last'.op \in Events /\ last'.p = p /\ last'.ok)
          => /\ storage'[key] = JSONstringify(data'[p])
             /\ \A q \in Players \ {p} : data'[q] = data[q] /\ player'[q] = player[q]
     /\ last'.op \notin Events => storage' = storage]_vars

\* C12 witness: both players have written; the storage holds the record of
\* player 2, which wrote last, and not that of player 1.
C12_Witness ==
  /\ Wrote(2, rateChange)
  /\ "setItem" \in ops[1]
  /\ storage[key] = JSONstringify(data[2])
  /\ storage[key] # JSONstringify(data[1])
  /\ Get(data[1], "muted") # Get(data[2], "muted")

\* C13: a handler whose write throws leaves the plugin Listening with its
\* subscriptions, and after the next write that succeeds the stored record
\* holds, for every enabled kind a handler has read, the value last read,
\* the values whose write threw included.
C13_SelfHealing ==
  \A p \in Players :
    /\ (last.op \in Events /\ last.p = p /\ ~last.ok)
       => /\ phase[p] = "Listening"
          /\ player[p].handlers = Subscriptions(options[p])
          /\ pending[p] # {}
    /\ (last.op \in Events /\ last.p = p /\ last.ok)
       => /\ pending[p] = {}
          /\ \A k \in OptionNames :
               (options[p][k] /\ observed[p][k] # Undefined)
               => Has(Stored, k) /\ Get(Stored, k) = observed[p][k]

\* C13 witness: a ratechange write has stored, with the rate, the volume
\* whose own write had thrown.
C13_Witness ==
  /\ Wrote(1, rateChange)
  /\ "volume" \in storedBy
  /\ observed[1].volume # Undefined
  /\ Get(Stored, "volume") = observed[1].volume
  /\ Get(Stored, "playbackRate") = observed[1].playbackRate

\* The stored string is an object in JSON.
WellFormed(st) ==
  /\ key \in DOMAIN st
  /\ ~JSONparse(st[key]).threw
  /\ JSONparse(st[key]).isObject

\* C14: when p's startup has read a malformed string and the user then
\* changes a control of an enabled kind, the notification's handler comes to
\* rewrite the key with a well-formed record (unless the page is left first,
\* or the audio handler throws for want of an enabled track).
C14_MalformedHealed ==
  \A p \in Players :
    (/\ last = Op("user", p, TRUE)
     /\ "getItem" \in ops[p]
     /\ key \in DOMAIN storage /\ storage[key] = NotJson
     /\ \A k \in Kinds(focus) : options[p][k])
    ~> \/ WellFormed(storage)
       \/ phase[p] \notin Running
       \/ last.op = "TypeError"

\* What a kind of preference controls in a player.
Control(pl, k) ==
  CASE k = "volume" -> <<pl.volume>>
    [] k = "muted" -> <<pl.muted>>
    [] k = "playbackRate" -> <<pl.playbackRate>>
    [] k = "captions" -> pl.textTracks
    [] k = "audioTrack" -> pl.audioTracks

\* C15: for a kind whose option is false, startup leaves what the kind
\* controls in the player as it was, and no handler's write changes the
\* member of that kind in the stored record; an option the caller did not
\* pass is true after the activation.
C15_DisabledInert ==
  [][\A p \in Players :
       /\ \A k \in OptionNames :
            /\ (last' = Op("onPlayerReady", p, TRUE) /\ ~options[p][k])
               => Control(player'[p], k) = Control(player[p], k)
            /\ (last'.op \in Events /\ last'.p = p /\ ~options[p][k])
               => \A old \in {Stored}, new \in {StoredIn(storage')} :
                    Has(new, k) = Has(old, k) /\ Get(new, k) = Get(old, k)
       /\ last' = Op("persistControls", p, TRUE)
          => \A k \in OptionNames \ Kinds(focus) : options'[p][k]]_vars

\* C15 witness: with muted disabled, the startup has not muted the player
\* and the volumechange handler has written a record that still says muted.
C15_Witness ==
  /\ Wrote(1, volumeChange)
  /\ ~options[1].muted /\ options[1].volume
  /\ Get(Stored, "muted") = Bool(TRUE)
  /\ ~player[1].muted
  /\ Get(Stored, "volume") = Num(player[1].volume)

\* C16: after the ratechange handler has written, the stored playbackRate,
\* the player's default rate and the player's rate are equal.
C16_RateHandler ==
  \A p \in Players :
    Wrote(p, rateChange)
    => /\ options[p].playbackRate
       /\ Get(Stored, "playbackRate") = Num(player[p].playbackRate)
       /\ player[p].defaultPlaybackRate = player[p].playbackRate
       /\ Get(data[p], "playbackRate") = Num(player[p].playbackRate)

\* C16 witness: the handler has moved the default rate and the stored rate
\* to a rate the user chose.
C16_Witness ==
  /\ Wrote(1, rateChange)
  /\ player[1].playbackRate = MaxRate
  /\ player[1].defaultPlaybackRate = MaxRate
  /\ BasePlayer.defaultPlaybackRate # MaxRate
  /\ Get(Stored, "playbackRate") = Num(MaxRate)

\* C17: the activation and the startup leave the storage as it was, the
\* test key absent; a step that changes what the record key holds is a
\* handler's successful write.
C17_StartupReadOnly ==
  [][/\ last'.op \in {"persistControls", "onPlayerReady"}
        => storage' = storage /\ testKey \notin DOMAIN storage'
     /\ GetItem(storage', key) # GetItem(storage, key)
        => last'.op \in Events /\ last'.ok]_vars

\* C17 witness: a startup has muted the player from a stored record, and
\* the storage holds the string the startup read and no test key.
C17_Witness ==
  /\ Started(1)
  /\ ~pre[1].pl.muted /\ player[1].muted
  /\ ~pre[1].item.isNull
  /\ GetItem(storage, key) = pre[1].item
  /\ testKey \notin DOMAIN storage

\* The keys no handler of p assigns: those that are no preference name and
\* those of the kinds p's options disable.
Carried(p) == {foreignKey} \cup {k \in OptionNames : ~options[p][k]}

\* C18: p's in-memory record is the record its startup read; while p
\* listens, the members no handler assigns keep their value in it; and every
\* successful write of p stores them with that value.
C18_KeysCarried ==
  [][\A p \in Players :
       /\ last' = Op("onPlayerReady", p, TRUE) => data'[p] = Stored
       /\ (phase[p] = "Listening" /\ phase'[p] = "Listening")
          => \A k \in Carried(p) :
               Has(data'[p], k) = Has(data[p], k) /\ Get(data'[p], k) = Get(data[p], k)
       /\ (last'.op \in Events /\ last'.p = p /\ last'.ok)
          => \A new \in {StoredIn(storage')} : \A k \in Carried(p) :
               Has(new, k) = Has(data[p], k) /\ Get(new, k) = Get(data[p], k)]_vars

\* C18 witness: the volumechange handler has written a record that keeps
\* the foreign member and the rate of the disabled playbackRate kind, which
\* is not the player's rate.
C18_Witness ==
  /\ Wrote(1, volumeChange)
  /\ ~options[1].playbackRate
  /\ Get(Stored, foreignKey) = Str("en")
  /\ Get(Stored, "playbackRate") = Num(MaxRate)
  /\ player[1].playbackRate # MaxRate
  /\ Get(Stored, "volume") = Num(player[1].volume)

\* C19: an audio change with no track enabled ends in a TypeError that
\* leaves the in-memory record, the storage and the subscriptions as they
\* were; a change with a track enabled never throws it, and its write stores
\* the language of the first enabled track.
C19_NoEnabledTrack ==
  [][\A p \in Players :
       /\ last' = Op("TypeError", p, FALSE)
          => /\ EnabledIn(player[p].audioTracks) = {}
             /\ data' = data /\ storage' = storage /\ observed' = observed
             /\ player' = player /\ phase'[p] = "Listening"
             /\ audioChange \in player'[p].handlers
       /\ (last'.op = audioChange /\ last'.p = p)
          => /\ EnabledIn(player[p].audioTracks) # {}
             /\ Get(data'[p], "audioTrack") =
                  Str(player[p].audioTracks[Find(IsEnabled(player[p].audioTracks))].language)
             /\ last'.ok => \A new \in {StoredIn(storage')} : new = data'[p]]_vars

\* C19 witness: the handler has thrown on a player whose tracks are all
\* disabled, after an earlier write of the session stored a language.
C19_Witness ==
  /\ last = Op("TypeError", 1, FALSE)
  /\ player[1].audioTracks # <<>>
  /\ EnabledIn(player[1].audioTracks) = {}
  /\ observed[1].audioTrack # Undefined
  /\ Get(Stored, "audioTrack") = observed[1].audioTrack
  /\ audioChange \in player[1].handlers

====
